---- MODULE Spec2Model ----
(***************************************************************************)
(* Steam wishlist tracker: the snapshot diff of tracker.js (findChanges),  *)
(* the watchlist renderer (generateWatchlist), the regex based enrichment  *)
(* merge of enrich-watchlist.js (enrichWatchlist), the runs of tracker.js  *)
(* over time, the daily driver run-daily.js, run once and run after run,   *)
(* and email-notify.js (sendNotification, parseWatchlistMarkdown).         *)
(*                                                                         *)
(* Text is modelled as a sequence of one-character strings, so that the    *)
(* regular expressions of enrichWatchlist are matched character by         *)
(* character, as the JavaScript engine matches them.                       *)
(***************************************************************************)
EXTENDS Integers, Sequences, FiniteSets, TLC

VARIABLES
    currentGames,   \* findChanges: the ranked list of this run (games)
    previousGames,  \* findChanges: the games of the previous report, or absent
    changes,        \* the result of findChanges
    pc,             \* position of tracker.js / enrich-watchlist.js ("noargs", "scraped",
                    \* "diffed", "tracked", "exit", "standalone") or of main of
                    \* run-daily.js ("main", "games", "enriching", "lookedUp", "done", "failed")
    watchlists,     \* watchlists/: the contents of the *.md files, in filename order
    record,         \* the enrichmentData of the last enrichWatchlist call
    updated,        \* the `updated` result of the last enrichWatchlist call
    merges,         \* number of enrichWatchlist calls so far
    reports,        \* reports/: the report_*.json files, in filename order
    exitCode,       \* exit code of the last process (tracker.js, enrich-watchlist.js)
    reportNames,    \* reports/: the timestamps in the names of the files of `reports`
    watchlistNames, \* watchlists/: the timestamps in the names of the files of `watchlists`
    dirs,           \* the directories that exist, of "reports" and "watchlists"
    now,            \* the clock, in seconds (UTC)
    tz,             \* the offset of the local time of the host from UTC, in seconds
    timestamp,      \* processGames: the timestamp of the last call
    captured,       \* history: the lists tracker.js saved, in the order of the runs
    runs,           \* number of tracker.js runs started so far
    gamesToEnrich,  \* main: the list parsed from the output of tracker.js
    cursor,         \* main: the place in gamesToEnrich the loop is at
    details,        \* main: the result of the last scrapeGameDetails
    emailResult,    \* main: the result of sendNotification
    events,         \* history: the calls main has made, in order
    mail,           \* sendNotification: the version called, process.env and the answer
                    \* of the transport at the call
    driverExit      \* exit code of run-daily.js

\* the two directories and the files in them
storeVars == <<reports, reportNames, watchlists, watchlistNames, dirs>>

\* the clock and the time zone of the host
clockVars == <<now, tz>>

\* the locals of main of run-daily.js
driverVars == <<gamesToEnrich, cursor, details, emailResult, events, driverExit, mail>>

vars == <<currentGames, previousGames, changes, pc, watchlists, record, updated, merges,
          reports, exitCode, reportNames, watchlistNames, dirs, now, tz, timestamp,
          captured, runs, gamesToEnrich, cursor, details, emailResult, events, driverExit, mail>>

(***************************************************************************)
(* Bounds of the model.                                                    *)
(***************************************************************************)
\* rows of the chart page scraped into the current list (ranks 1..MaxCurRows)
MaxCurRows == 3
\* rows of the chart page behind the previous report (ranks 1..MaxPrevRows)
MaxPrevRows == 5
\* enrichWatchlist calls per behaviour
MaxMerges == 2
\* seconds of a day of the clock
DayLen == 3
\* seconds between the end of a run and the start of the next
MaxElapsed == 2
\* runs of tracker.js per behaviour
MaxRuns == 3
\* times run-daily.js is started again per behaviour
MaxRestarts == 1

(***************************************************************************)
(* Characters and strings.                                                 *)
(***************************************************************************)
Digits == <<"0", "1", "2", "3", "4", "5", "6", "7", "8", "9">>

DigitSet == {Digits[i] : i \in 1..10}

\* "Unknown", the placeholder of the developer and publisher columns
Unknown == <<"U", "n", "k", "n", "o", "w", "n">>

TitleA == <<"A">>
TitleB == <<"B">>
\* a title with a regex metacharacter
TitleC == <<"C", "+">>

Titles == {TitleA, TitleB, TitleC}

\* Number.prototype.toString of a natural number, as characters
RECURSIVE NumToChars(_)
NumToChars(n) ==
    IF n < 10 THEN <<Digits[n + 1]>>
    ELSE NumToChars(n \div 10) \o <<Digits[(n % 10) + 1]>>

\* Number.prototype.toLocaleString (en-US): groups of three digits, separated by commas
RECURSIVE GroupThousands(_)
GroupThousands(ds) ==
    IF Len(ds) <= 3 THEN ds
    ELSE GroupThousands(SubSeq(ds, 1, Len(ds) - 3)) \o <<",">> \o SubSeq(ds, Len(ds) - 2, Len(ds))

(***************************************************************************)
(* Games. followers is <<n>> when the count is known and <<>> when the     *)
(* field is absent (undefined); appId is a string, "" when empty.          *)
(***************************************************************************)
Game(r, t, a, f) == [rank |-> r, title |-> t, appId |-> a, followers |-> f]

\* what a chart row can hold in the current scrape: title, appId, followers
CurCatalog ==
    { [title |-> TitleA, appId |-> <<"1", "0">>, followers |-> <<1500>>],
      [title |-> TitleB, appId |-> <<"2", "0">>, followers |-> <<0>>],
      [title |-> TitleC, appId |-> <<>>,         followers |-> <<>>] }

\* the same titles as the previous report holds them (other appId and followers)
PrevCatalog ==
    { [title |-> TitleA, appId |-> <<"1", "1">>, followers |-> <<7>>],
      [title |-> TitleB, appId |-> <<"2", "0">>, followers |-> <<0>>],
      [title |-> TitleC, appId |-> <<"3", "0">>, followers |-> <<12>>] }

\* a chart row that yields no game (no title or no app link)
NoRow == [title |-> <<>>, appId |-> <<>>, followers |-> <<>>]

\* the scraper: row i of the page becomes the game of rank i; rows without a
\* title are left out
RECURSIVE ScrapeRows(_, _)
ScrapeRows(rows, i) ==
    IF i > Len(rows) THEN <<>>
    ELSE IF rows[i] = NoRow THEN ScrapeRows(rows, i + 1)
    ELSE <<Game(i, rows[i].title, rows[i].appId, rows[i].followers)>> \o ScrapeRows(rows, i + 1)

RankedLists(catalog, n) == { ScrapeRows(rows, 1) : rows \in [1..n -> catalog \cup {NoRow}] }

\* the previous report as processGames hands it to findChanges
Absent == [present |-> FALSE, games |-> <<>>]
Present(games) == [present |-> TRUE, games |-> games]

(***************************************************************************)
(* findChanges                                                             *)
(***************************************************************************)
\* previousMap: a Map keyed by title; a later game of the same title replaces
\* the earlier one
BuildPreviousMapFirstWins(games, i, m) ==
    [t \in DOMAIN m \cup { games[k].title : k \in i..Len(games) } |->
        IF t \in DOMAIN m THEN m[t]
        ELSE games[CHOOSE k \in i..Len(games) :
                      /\ games[k].title = t
                      /\ \A n \in i..(k - 1) : games[n].title # t]]
RECURSIVE BuildPreviousMap(_, _, _)
BuildPreviousMap(games, i, m) ==
    IF i > Len(games) THEN m
    ELSE BuildPreviousMap(games, i + 1, (games[i].title :> games[i]) @@ m)

\* the result when there is no previous report
FirstRunResultNotFlagged == [newEntries |-> <<>>, risers |-> <<>>, isFirstRun |-> FALSE]
FirstRunResult == [newEntries |-> <<>>, risers |-> <<>>, isFirstRun |-> TRUE]

\* previous.rank - game.rank > 2
RoseMoreThan3(previous, game) == previous.rank - game.rank > 3
RoseAtLeast2(previous, game) == previous.rank - game.rank >= 2
RoseMoreThan2SameApp(previous, game) ==
    previous.rank - game.rank > 2 /\ previous.appId = game.appId
RoseMoreThan2(previous, game) == previous.rank - game.rank > 2

\* { ...game, previousRank: previous.rank, change: previous.rank - game.rank }
RiserRecord(game, previous) ==
    [rank |-> game.rank, title |-> game.title, appId |-> game.appId,
     followers |-> game.followers,
     previousRank |-> previous.rank, change |-> previous.rank - game.rank]

\* newEntries.push(game)
NewEntryRankOnly(game) == Game(game.rank, game.title, game.appId, <<>>)
NewEntryRecord(game) == game

\* list.push(x)
Unshift(list, x) == <<x>> \o list
Push(list, x) == Append(list, x)

\* one iteration of the loop over currentGames
ClassifyAlsoRiser(acc, game, previousMap) ==
    IF game.title \notin DOMAIN previousMap
    THEN [acc EXCEPT !.newEntries = Push(@, NewEntryRecord(game)),
                     !.risers = Push(@, RiserRecord(game, game))]
    ELSE acc
Classify(acc, game, previousMap) ==
    IF game.title \notin DOMAIN previousMap
    THEN [acc EXCEPT !.newEntries = Push(@, NewEntryRecord(game))]
    ELSE IF RoseMoreThan2(previousMap[game.title], game)
         THEN [acc EXCEPT !.risers = Push(@, RiserRecord(game, previousMap[game.title]))]
         ELSE acc

RECURSIVE ClassifyAll(_, _, _, _)
ClassifyAll(games, i, previousMap, acc) ==
    IF i > Len(games) THEN acc
    ELSE ClassifyAll(games, i + 1, previousMap, Classify(acc, games[i], previousMap))

\* the games of a list whose title no game of another list has
Dropouts(list, other) ==
    SelectSeq(list, LAMBDA g : \A i \in 1..Len(other) : other[i].title # g.title)

findChangesWithDropouts(current, previous) ==
    IF ~previous.present \/ Len(previous.games) = 0
    THEN FirstRunResult
    ELSE [ClassifyAll(current, 1, BuildPreviousMap(previous.games, 1, << >>),
                      [newEntries |-> <<>>, risers |-> <<>>, isFirstRun |-> FALSE])
            EXCEPT !.newEntries = @ \o Dropouts(previous.games, current)]

findChanges(current, previous) ==
    IF ~previous.present \/ Len(previous.games) = 0
    THEN FirstRunResult
    ELSE ClassifyAll(current, 1, BuildPreviousMap(previous.games, 1, << >>),
                     [newEntries |-> <<>>, risers |-> <<>>, isFirstRun |-> FALSE])

NoChanges == [newEntries |-> <<>>, risers |-> <<>>, isFirstRun |-> FALSE]

(***************************************************************************)
(* The diff on its own: every pair of a current list and a previous        *)
(* report, and one call of findChanges.                                    *)
(***************************************************************************)
\* previous reports whose list is not in the order of the ranks (tracker.js
\* saves the list of its argument as it is)
ReorderedLists ==
    { <<Game(5, TitleA, <<"1", "1">>, <<7>>), Game(2, TitleA, <<"1", "1">>, <<7>>)>>,
      <<Game(4, TitleA, <<"1", "1">>, <<7>>), Game(1, TitleB, <<"2", "0">>, <<0>>),
        Game(5, TitleA, <<"1", "1">>, <<7>>), Game(3, TitleA, <<"1", "1">>, <<7>>)>>,
      <<Game(2, TitleB, <<"2", "0">>, <<0>>), Game(5, TitleB, <<"2", "0">>, <<0>>),
        Game(4, TitleC, <<"3", "0">>, <<12>>)>> }

InitDiff ==
    /\ currentGames \in RankedLists(CurCatalog, MaxCurRows)
    /\ previousGames \in {Absent} \cup { Present(g) : g \in RankedLists(PrevCatalog, MaxPrevRows) }
                              \cup { Present(g) : g \in ReorderedLists }
    /\ changes = NoChanges
    /\ pc = "scraped"
    /\ watchlists = <<>>
    /\ record = [title |-> <<>>, developer |-> <<>>, publisher |-> <<>>]
    /\ updated = FALSE
    /\ merges = 0
    /\ reports = <<>>
    /\ exitCode = 0
    /\ reportNames = <<>>
    /\ watchlistNames = <<>>
    /\ dirs = {}
    /\ now = 0
    /\ tz = 0
    /\ timestamp = <<0, 0>>
    /\ captured = <<>>
    /\ runs = 0
    /\ gamesToEnrich = <<>>
    /\ cursor = 0
    /\ details = [developer |-> <<>>, publisher |-> <<>>]
    /\ emailResult = [success |-> FALSE, reason |-> "", read |-> FALSE, sent |-> 0]
    /\ events = <<>>
    /\ driverExit = 0
    /\ mail = [mailer |-> "", env |-> {}, transport |-> ""]

FindChanges ==
    /\ pc = "scraped"
    /\ changes' = findChanges(currentGames, previousGames)
    /\ pc' = "diffed"
    /\ UNCHANGED <<currentGames, previousGames, record, updated, merges, exitCode, timestamp,
                   captured, runs, storeVars, clockVars, driverVars>>

NextDiff == FindChanges

SpecDiff == InitDiff /\ [][NextDiff]_vars

(***************************************************************************)
(* Claims about findChanges (checked under SpecDiff).                      *)
(***************************************************************************)
Diffed == pc = "diffed"

PreviousEmpty == ~previousGames.present \/ previousGames.games = <<>>

\* the titles the previous report holds
PreviousTitles == { previousGames.games[i].title : i \in 1..Len(previousGames.games) }

\* the rank the previous report gives a title: that of its last item of the title
PreviousRankOf(title) ==
    LET idx == { i \in 1..Len(previousGames.games) : previousGames.games[i].title = title }
        last == CHOOSE i \in idx : \A k \in idx : k <= i
    IN previousGames.games[last].rank

\* the places of an output list that hold the item of current at place i
PlacesOf(list, i) ==
    { j \in 1..Len(list) : list[j].title = currentGames[i].title /\ list[j].rank = currentGames[i].rank }

\* C1: with the previous list empty or absent, findChanges returns no new
\* entries, no risers and the baseline flag isFirstRun = true, whatever the
\* current list is.
C1_BaselineOnEmptyPrevious ==
    (Diffed /\ PreviousEmpty) =>
        /\ changes.newEntries = <<>>
        /\ changes.risers = <<>>
        /\ changes.isFirstRun = TRUE

C1_Witness ==
    /\ Diffed
    /\ previousGames = Present(<<>>)
    /\ Len(currentGames) >= 2
    /\ changes.isFirstRun

\* C2: with a non-empty previous list, every item of current whose title is in
\* previous and whose rank improved by d > 2 is exactly once in risers, with
\* previousRank = the previous rank and change = d; every riser has
\* change >= 3 and previousRank - rank = change.
C2_RisersCarryDelta ==
    (Diffed /\ ~PreviousEmpty) =>
        /\ \A i \in 1..Len(currentGames) :
              (/\ currentGames[i].title \in PreviousTitles
               /\ PreviousRankOf(currentGames[i].title) - currentGames[i].rank > 2)
              => /\ Cardinality(PlacesOf(changes.risers, i)) = 1
                 /\ \A j \in PlacesOf(changes.risers, i) :
                       /\ changes.risers[j].previousRank = PreviousRankOf(currentGames[i].title)
                       /\ changes.risers[j].change =
                             PreviousRankOf(currentGames[i].title) - currentGames[i].rank
        /\ \A j \in 1..Len(changes.risers) :
              /\ changes.risers[j].change >= 3
              /\ changes.risers[j].previousRank - changes.risers[j].rank = changes.risers[j].change

C2_Witness ==
    /\ Diffed
    /\ \E j \in 1..Len(changes.risers) :
          /\ changes.risers[j].change = 3
          /\ changes.risers[j].previousRank = 4
          /\ changes.risers[j].rank = 1

\* C3: with a non-empty previous list, an item of current whose title is in
\* previous and whose delta previousRank - rank is <= 2 (unchanged, up by 1 or
\* 2, or fallen) is in neither newEntries nor risers.
C3_SmallDeltaDropped ==
    (Diffed /\ ~PreviousEmpty) =>
        \A i \in 1..Len(currentGames) :
            (/\ currentGames[i].title \in PreviousTitles
             /\ PreviousRankOf(currentGames[i].title) - currentGames[i].rank <= 2)
            => /\ PlacesOf(changes.newEntries, i) = {}
               /\ PlacesOf(changes.risers, i) = {}

C3_Witness ==
    /\ Diffed
    /\ ~PreviousEmpty
    /\ \E i \in 1..Len(currentGames) :
          /\ currentGames[i].title \in PreviousTitles
          /\ PreviousRankOf(currentGames[i].title) - currentGames[i].rank = 2
    /\ \E i \in 1..Len(currentGames) :
          /\ currentGames[i].title \in PreviousTitles
          /\ PreviousRankOf(currentGames[i].title) - currentGames[i].rank < 0
    /\ changes.risers = <<>>
    /\ changes.newEntries = <<>>

\* C4: with a non-empty previous list, every item of current whose title does
\* not occur in previous is in newEntries, whatever its rank, and its record
\* there has the item's rank and followers unchanged.
C4_UnknownTitleIsNewEntry ==
    (Diffed /\ ~PreviousEmpty) =>
        \A i \in 1..Len(currentGames) :
            currentGames[i].title \notin PreviousTitles
            => \E j \in PlacesOf(changes.newEntries, i) :
                  /\ changes.newEntries[j].rank = currentGames[i].rank
                  /\ changes.newEntries[j].followers = currentGames[i].followers

C4_Witness ==
    /\ Diffed
    /\ ~PreviousEmpty
    /\ \E i \in 1..Len(currentGames) :
          /\ currentGames[i].title \notin PreviousTitles
          /\ currentGames[i].rank = 3
          /\ currentGames[i].followers = <<1500>>
          /\ PlacesOf(changes.newEntries, i) # {}

\* C5: no item of current is in both newEntries and risers, and no title
\* occurs in both output lists.
C5_NewEntriesAndRisersDisjoint ==
    Diffed =>
        /\ \A i \in 1..Len(currentGames) :
              PlacesOf(changes.newEntries, i) = {} \/ PlacesOf(changes.risers, i) = {}
        /\ \A j \in 1..Len(changes.newEntries) : \A k \in 1..Len(changes.risers) :
              changes.newEntries[j].title # changes.risers[k].title

C5_Witness ==
    /\ Diffed
    /\ changes.newEntries # <<>>
    /\ changes.risers # <<>>

\* the place in current of the item an output record was made from
PlaceInCurrent(rec) ==
    { i \in 1..Len(currentGames) :
        currentGames[i].title = rec.title /\ currentGames[i].rank = rec.rank }

InOrderOfCurrent(list) ==
    /\ \A j \in 1..Len(list) : PlaceInCurrent(list[j]) # {}
    /\ \A j, k \in 1..Len(list) :
          j < k => \A a \in PlaceInCurrent(list[j]) : \A b \in PlaceInCurrent(list[k]) : a < b

\* C6: newEntries and risers are each a subsequence of current: two records of
\* one output list are in the order of their items in current.
C6_OutputKeepsOrderOfCurrent ==
    Diffed => InOrderOfCurrent(changes.newEntries) /\ InOrderOfCurrent(changes.risers)

C6_Witness ==
    /\ Diffed
    /\ Len(changes.risers) >= 2
    /\ Len(changes.newEntries) >= 1

\* the titles the current list holds
CurrentTitles == { currentGames[i].title : i \in 1..Len(currentGames) }

\* the records of an output list that have a title
RecordsOfTitle(list, title) == { j \in 1..Len(list) : list[j].title = title }

\* C22: every record of newEntries and of risers has the title and the rank
\* of an item of current; a title that previous holds and current does not
\* has no record in either list.
C22_DropoutsNotTracked ==
    Diffed =>
        /\ \A j \in 1..Len(changes.newEntries) : PlaceInCurrent(changes.newEntries[j]) # {}
        /\ \A j \in 1..Len(changes.risers) : PlaceInCurrent(changes.risers[j]) # {}
        /\ \A title \in PreviousTitles \ CurrentTitles :
              /\ RecordsOfTitle(changes.newEntries, title) = {}
              /\ RecordsOfTitle(changes.risers, title) = {}

C22_Witness ==
    /\ Diffed
    /\ ~PreviousEmpty
    /\ PreviousTitles \ CurrentTitles # {}
    /\ changes.newEntries # <<>>
    /\ changes.risers # <<>>

\* a list with every appId emptied
WithoutAppId(list) == [i \in 1..Len(list) |-> [list[i] EXCEPT !.appId = <<>>]]

\* a list with every appId emptied and every followers count dropped
WithoutAppIdAndFollowers(list) ==
    [i \in 1..Len(list) |-> [list[i] EXCEPT !.appId = <<>>, !.followers = <<>>]]

\* what a result of findChanges says of the items of current: the baseline
\* flag, the new entries by title and rank, the risers by title, rank,
\* previousRank and change (the other items are the unchanged ones)
Classification(chg) ==
    [isFirstRun |-> chg.isFirstRun,
     newEntries |-> [j \in 1..Len(chg.newEntries) |->
                       <<chg.newEntries[j].title, chg.newEntries[j].rank>>],
     risers     |-> [j \in 1..Len(chg.risers) |->
                       <<chg.risers[j].title, chg.risers[j].rank,
                         chg.risers[j].previousRank, chg.risers[j].change>>]]

\* C23: the diff depends only on titles and ranks: the classification of the
\* items of current is the one findChanges gives for the same lists with
\* every appId of current and previous emptied and every followers count of
\* previous dropped, so two inputs that differ only in those fields are
\* classified alike.
C23_DiffByTitleAndRankOnly ==
    Diffed =>
        Classification(changes) =
           Classification(findChanges(WithoutAppId(currentGames),
                                      [previousGames EXCEPT
                                          !.games = WithoutAppIdAndFollowers(@)]))

C23_Witness ==
    /\ Diffed
    /\ changes.newEntries # <<>>
    /\ \E j \in 1..Len(changes.risers) :
          \E k \in 1..Len(previousGames.games) :
             /\ previousGames.games[k].title = changes.risers[j].title
             /\ previousGames.games[k].rank = changes.risers[j].previousRank
             /\ previousGames.games[k].appId # changes.risers[j].appId
             /\ previousGames.games[k].followers # changes.risers[j].followers

\* the places of previous that hold a title
PreviousPlacesOf(title) ==
    { k \in 1..Len(previousGames.games) : previousGames.games[k].title = title }

\* the last item of previous that has a title
LastOfTitle(title) ==
    previousGames.games[CHOOSE k \in PreviousPlacesOf(title) :
                           \A n \in PreviousPlacesOf(title) : n <= k]

\* C24: when previous holds several items of one title, an item of current of
\* that title is compared with the last of them: it is no new entry, it is a
\* riser exactly when the rank of the last one minus its rank is more than 2,
\* and its previousRank and change are those of the last one.
C24_LastDuplicateWins ==
    (Diffed /\ ~PreviousEmpty) =>
        \A i \in 1..Len(currentGames) :
           Cardinality(PreviousPlacesOf(currentGames[i].title)) >= 2 =>
              /\ PlacesOf(changes.newEntries, i) = {}
              /\ (PlacesOf(changes.risers, i) # {}) <=>
                    (LastOfTitle(currentGames[i].title).rank - currentGames[i].rank > 2)
              /\ \A j \in PlacesOf(changes.risers, i) :
                    /\ changes.risers[j].previousRank = LastOfTitle(currentGames[i].title).rank
                    /\ changes.risers[j].change =
                          LastOfTitle(currentGames[i].title).rank - currentGames[i].rank

\* the last duplicate is neither the first nor the one of the greatest rank
C24_Witness ==
    /\ Diffed
    /\ \E i \in 1..Len(currentGames) :
          /\ Cardinality(PreviousPlacesOf(currentGames[i].title)) >= 3
          /\ \E k \in PreviousPlacesOf(currentGames[i].title) :
                previousGames.games[k].rank > LastOfTitle(currentGames[i].title).rank
          /\ PlacesOf(changes.risers, i) = {}
          /\ \E k \in PreviousPlacesOf(currentGames[i].title) :
                previousGames.games[k].rank - currentGames[i].rank > 2


(***************************************************************************)
(* Rendering: formatFollowers and generateWatchlist.                       *)
(***************************************************************************)
\* new Date().toLocaleDateString() and new Date().toLocaleString() at the run
LocaleDate == <<"1", "1", "/", "2", "/", "2", "0", "2", "6">>
LocaleDateTime == <<"1", "1", "/", "2", "/", "2", "0", "2", "6", ",", " ", "6", ":", "0", "0", ":", "0", "0",
      " ", "A", "M">>

RECURSIVE Concat(_)
Concat(parts) == IF parts = <<>> THEN <<>> ELSE Head(parts) \o Concat(Tail(parts))

formatFollowers(followers) ==
    IF followers = <<>> THEN <<"N", "/", "A">>
    ELSE GroupThousands(NumToChars(followers[1]))

\* watchlistData?.find(w => w.title === game.title) || {}
NoInfo == [title |-> <<>>, developer |-> <<>>, publisher |-> <<>>]

RECURSIVE FindInfo(_, _, _)
FindInfo(watchlistData, title, i) ==
    IF i > Len(watchlistData) THEN NoInfo
    ELSE IF watchlistData[i].title = title THEN watchlistData[i]
    ELSE FindInfo(watchlistData, title, i + 1)

\* x || 'Unknown'
OrUnknown(x) == IF x = <<>> THEN Unknown ELSE x

\* the row of a new entry, as generateWatchlist writes it
NewEntryRow(game, info) ==
    Concat(<< <<"|", " ">>, NumToChars(game.rank), <<" ", "|", " ">>, game.title, <<" ", "|", " ">>,
              formatFollowers(game.followers), <<" ", "|", " ">>, game.appId, <<" ", "|", " ">>,
              OrUnknown(info.developer), <<" ", "|", " ">>, OrUnknown(info.publisher), <<" ", "|", "\n">> >>)

\* the row of a riser, as generateWatchlist writes it
RiserRow(game, info) ==
    Concat(<< <<"|", " ">>, NumToChars(game.rank), <<" ", "|", " ">>, NumToChars(game.previousRank), <<" ", "|", " ", "+">>,
              NumToChars(game.change), <<" ", "|", " ">>, game.title, <<" ", "|", " ">>,
              formatFollowers(game.followers), <<" ", "|", " ">>, game.appId, <<" ", "|", " ">>,
              OrUnknown(info.developer), <<" ", "|", " ">>, OrUnknown(info.publisher), <<" ", "|", "\n">> >>)

RECURSIVE NewEntryRows(_, _, _)
NewEntryRows(games, watchlistData, i) ==
    IF i > Len(games) THEN <<>>
    ELSE NewEntryRow(games[i], FindInfo(watchlistData, games[i].title, 1))
         \o NewEntryRows(games, watchlistData, i + 1)

RECURSIVE RiserRows(_, _, _)
RiserRows(games, watchlistData, i) ==
    IF i > Len(games) THEN <<>>
    ELSE RiserRow(games[i], FindInfo(watchlistData, games[i].title, 1))
         \o RiserRows(games, watchlistData, i + 1)

WatchlistHeading ==
    Concat(<< <<"#", " ", "W", "a", "t", "c", "h", "l", "i", "s", "t", " ", "-", " ">>, LocaleDate, <<"\n", "\n">>,
              <<"*", "*", "G", "e", "n", "e", "r", "a", "t", "e", "d", ":", "*", "*", " ">>, LocaleDateTime, <<"\n", "\n">> >>)

NewEntriesSection(newEntries, watchlistData) ==
    <<"#", "#", " ", "N", "e", "w", " ", "t", "o", " ", "T", "o", "p", " ", "2", "0", "0",
      "\n", "\n">> \o
    (IF Len(newEntries) = 0 THEN <<"*", "N", "o", " ", "n", "e", "w", " ", "e", "n", "t", "r", "i", "e", "s", "*", "\n", "\n">>
     ELSE Concat(<< <<"|", " ", "R", "a", "n", "k", " ", "|", " ", "T", "i", "t", "l", "e", " ", "|", " ", "F",
      "o", "l", "l", "o", "w", "e", "r", "s", " ", "|", " ", "A", "p", "p", " ", "I", "D",
      " ", "|", " ", "D", "e", "v", "e", "l", "o", "p", "e", "r", " ", "|", " ", "P", "u",
      "b", "l", "i", "s", "h", "e", "r", " ", "|", "\n">>,
                    <<"|", "-", "-", "-", "-", "-", "-", "|", "-", "-", "-", "-", "-", "-", "-", "|", "-", "-",
      "-", "-", "-", "-", "-", "-", "-", "-", "-", "|", "-", "-", "-", "-", "-", "-", "-",
      "-", "|", "-", "-", "-", "-", "-", "-", "-", "-", "-", "-", "-", "|", "-", "-", "-",
      "-", "-", "-", "-", "-", "-", "-", "|", "\n">>,
                    NewEntryRows(newEntries, watchlistData, 1),
                    <<"\n">> >>))

RisersSection(risers, watchlistData) ==
    <<"#", "#", " ", "R", "i", "s", "i", "n", "g", " ", "T", "i", "t", "l", "e", "s", " ", "(",
      "U", "p", " ", "3", "+", " ", "S", "p", "o", "t", "s", ")", "\n", "\n">> \o
    (IF Len(risers) = 0 THEN <<"*", "N", "o", " ", "s", "i", "g", "n", "i", "f", "i", "c", "a", "n", "t", " ", "r", "i",
      "s", "e", "r", "s", "*", "\n", "\n">>
     ELSE Concat(<< <<"|", " ", "C", "u", "r", "r", "e", "n", "t", " ", "R", "a", "n", "k", " ", "|", " ", "P",
      "r", "e", "v", "i", "o", "u", "s", " ", "R", "a", "n", "k", " ", "|", " ", "C", "h",
      "a", "n", "g", "e", " ", "|", " ", "T", "i", "t", "l", "e", " ", "|", " ", "F", "o",
      "l", "l", "o", "w", "e", "r", "s", " ", "|", " ", "A", "p", "p", " ", "I", "D", " ",
      "|", " ", "D", "e", "v", "e", "l", "o", "p", "e", "r", " ", "|", " ", "P", "u", "b",
      "l", "i", "s", "h", "e", "r", " ", "|", "\n">>,
                    <<"|", "-", "-", "-", "-", "-", "-", "-", "-", "-", "-", "-", "-", "-", "-", "|", "-", "-",
      "-", "-", "-", "-", "-", "-", "-", "-", "-", "-", "-", "-", "-", "|", "-", "-", "-",
      "-", "-", "-", "-", "-", "|", "-", "-", "-", "-", "-", "-", "-", "|", "-", "-", "-",
      "-", "-", "-", "-", "-", "-", "-", "-", "|", "-", "-", "-", "-", "-", "-", "-", "-",
      "|", "-", "-", "-", "-", "-", "-", "-", "-", "-", "-", "-", "|", "-", "-", "-", "-",
      "-", "-", "-", "-", "-", "-", "|", "\n">>,
                    RiserRows(risers, watchlistData, 1) >>))

generateWatchlist(chg, watchlistData) ==
    IF chg.isFirstRun
    THEN WatchlistHeading \o <<"*", "T", "h", "i", "s", " ", "i", "s", " ", "t", "h", "e", " ", "f", "i", "r", "s", "t",
      " ", "r", "u", "n", " ", "-", " ", "n", "o", " ", "p", "r", "e", "v", "i", "o", "u",
      "s", " ", "d", "a", "t", "a", " ", "t", "o", " ", "c", "o", "m", "p", "a", "r", "e",
      " ", "a", "g", "a", "i", "n", "s", "t", ".", "*", "\n", "\n">>
    ELSE Concat(<< WatchlistHeading,
                   NewEntriesSection(chg.newEntries, watchlistData),
                   RisersSection(chg.risers, watchlistData) >>)

(***************************************************************************)
(* Regular expressions, as far as enrichWatchlist uses them.  A pattern is *)
(* a sequence of items: a character class with a quantifier ("1", "?",     *)
(* "*", "+"), a literal string ("s"), or the close of capture group 1      *)
(* (")").  Quantifiers are greedy and backtrack, as in JavaScript: the     *)
(* matcher keeps the ways to go on in the order backtracking tries them,   *)
(* and the match is the first way that reaches the end of the pattern.     *)
(***************************************************************************)
Item(neg, set, q) == [neg |-> neg, set |-> set, q |-> q, str |-> <<>>]
Lit(c) == Item(FALSE, {c}, "1")
Str(s) == [neg |-> FALSE, set |-> {}, q |-> "s", str |-> s]
GroupEnd == Item(FALSE, {}, ")")
\* \s (the model's text holds no other white space than blank and newline)
WhiteSpace == {" ", "\n"}
\* \s*
Blanks == Item(FALSE, WhiteSpace, "*")
\* .
AnyChar == Item(TRUE, {"\n"}, "1")

InClass(item, c) == (c \in item.set) # item.neg

\* the characters title.replace(/[.*+?^${}()|[\]\\]/g, '\\$&') escapes
RegexSpecials == {".", "*", "+", "?", "^", "$", "{", "}", "(", ")", "|", "[", "]", "\\"}

\* title.replace(/[.*+?^${}()|[\]\\]/g, '\\$&'): a backslash before each special
RECURSIVE EscapeRegex(_)
EscapeRegex(title) ==
    IF title = <<>> THEN <<>>
    ELSE (IF Head(title) \in RegexSpecials THEN <<"\\", Head(title)>> ELSE <<Head(title)>>)
         \o EscapeRegex(Tail(title))

\* new RegExp(source) for the part of the source that comes from the title:
\* \c is the character c; a bare . * + ? keeps its regex meaning; the other
\* specials never reach here bare, EscapeRegex having escaped them
RECURSIVE CompileSource(_, _)
CompileSource(src, items) ==
    IF src = <<>> THEN items
    ELSE IF Head(src) = "\\" /\ Len(src) >= 2
         THEN CompileSource(Tail(Tail(src)), Append(items, Lit(src[2])))
    ELSE IF Head(src) = "." THEN CompileSource(Tail(src), Append(items, AnyChar))
    ELSE IF Head(src) \in {"*", "+", "?"} /\ items # <<>>
         THEN CompileSource(Tail(src),
                            [items EXCEPT ![Len(items)] = [@ EXCEPT !.q = Head(src)]])
    ELSE CompileSource(Tail(src), Append(items, Lit(Head(src))))

NoMatch == [ok |-> FALSE, end |-> 0, g1 |-> 0]

\* the number of characters of text from pos on that are in the item's class
RECURSIVE RunLength(_, _, _)
RunLength(text, item, pos) ==
    IF pos <= Len(text) /\ InClass(item, text[pos])
    THEN 1 + RunLength(text, item, pos + 1)
    ELSE 0

Min(a, b) == IF a < b THEN a ELSE b

\* a way to go on: the place reached and the place after capture group 1.
\* The ways a repetition opens: the longest first, then one character less,
\* down to the least number of repetitions
Repetitions(way, most, least) ==
    [j \in 1..(most - least + 1) |-> [pos |-> way.pos + most - (j - 1), g1 |-> way.g1]]

\* the ways to go on after one item, in the order backtracking tries them
Advance(text, item, ways) ==
    CASE item.q = ")" -> [i \in 1..Len(ways) |-> [pos |-> ways[i].pos, g1 |-> ways[i].pos]]
      [] item.q = "s" ->
            Concat([i \in 1..Len(ways) |->
                IF SubSeq(text, ways[i].pos, ways[i].pos + Len(item.str) - 1) = item.str
                   /\ ways[i].pos + Len(item.str) - 1 <= Len(text)
                THEN <<[pos |-> ways[i].pos + Len(item.str), g1 |-> ways[i].g1]>>
                ELSE <<>>])
      [] item.q = "1" ->
            Concat([i \in 1..Len(ways) |->
                IF ways[i].pos <= Len(text) /\ InClass(item, text[ways[i].pos])
                THEN <<[pos |-> ways[i].pos + 1, g1 |-> ways[i].g1]>>
                ELSE <<>>])
      [] item.q = "?" ->
            Concat([i \in 1..Len(ways) |->
                Repetitions(ways[i], Min(1, RunLength(text, item, ways[i].pos)), 0)])
      [] item.q = "*" ->
            Concat([i \in 1..Len(ways) |->
                Repetitions(ways[i], RunLength(text, item, ways[i].pos), 0)])
      [] item.q = "+" ->
            Concat([i \in 1..Len(ways) |->
                Repetitions(ways[i], RunLength(text, item, ways[i].pos), 1)])

RECURSIVE AdvanceAll(_, _, _, _)
AdvanceAll(text, pat, k, ways) ==
    IF k > Len(pat) \/ ways = <<>> THEN ways
    ELSE AdvanceAll(text, pat, k + 1, Advance(text, pat[k], ways))

\* the match of the pattern at pos: ok, end = the place after the match,
\* g1 = the place after capture group 1
MatchAt(text, pat, pos) ==
    LET ways == AdvanceAll(text, pat, 1, <<[pos |-> pos, g1 |-> pos]>>)
    IN IF ways = <<>> THEN NoMatch
       ELSE [ok |-> TRUE, end |-> ways[1].pos, g1 |-> ways[1].g1]

\* GetSubstitution: the replacement string with $$, $&, $1 and $01 replaced
\* (the patterns have one capture group); any other $ is kept.  The patterns
\* for the text before and after the match are left out: the developer and
\* publisher values of the model do not hold them
RECURSIVE Substitute(_, _, _, _)
Substitute(template, text, pos, m) ==
    IF template = <<>> THEN <<>>
    ELSE IF Head(template) = "$" /\ Len(template) >= 2
    THEN IF template[2] = "$"
         THEN <<"$">> \o Substitute(Tail(Tail(template)), text, pos, m)
         ELSE IF template[2] = "&"
         THEN SubSeq(text, pos, m.end - 1) \o Substitute(Tail(Tail(template)), text, pos, m)
         ELSE IF template[2] = "1"
         THEN SubSeq(text, pos, m.g1 - 1) \o Substitute(Tail(Tail(template)), text, pos, m)
         ELSE IF template[2] = "0" /\ Len(template) >= 3 /\ template[3] = "1"
         THEN SubSeq(text, pos, m.g1 - 1) \o Substitute(Tail(Tail(Tail(template))), text, pos, m)
         ELSE <<"$">> \o Substitute(Tail(template), text, pos, m)
    ELSE <<Head(template)>> \o Substitute(Tail(template), text, pos, m)

\* the places from pos on where the pattern matches
MatchPlaces(text, pat, pos) ==
    { p \in pos..Len(text) :
        /\ pat[1].q = "1" => InClass(pat[1], text[p])
        /\ MatchAt(text, pat, p).ok }

\* String.prototype.replace with a global pattern: every match, left to
\* right, the search going on after the end of the last match
RECURSIVE ReplaceFrom(_, _, _, _, _)
ReplaceFrom(text, pat, template, pos, out) ==
    LET places == MatchPlaces(text, pat, pos)
    IN IF places = {} THEN out \o SubSeq(text, pos, Len(text))
       ELSE LET p == CHOOSE q \in places : \A r \in places : q <= r
                m == MatchAt(text, pat, p)
            IN ReplaceFrom(text, pat, template, m.end,
                           Concat(<<out, SubSeq(text, pos, p - 1), Substitute(template, text, p, m)>>))

ReplaceAll(text, pat, template) == ReplaceFrom(text, pat, template, 1, <<>>)

(***************************************************************************)
(* enrichWatchlist                                                         *)
(***************************************************************************)
\* [\d,N/A]
FollowersClass == DigitSet \cup {",", "N", "/", "A"}

\* \s*Unknown\s*\|\s*Unknown\s*\|
PlaceholderColumns ==
    <<Blanks, Str(Unknown), Blanks, Lit("|"), Blanks, Str(Unknown), Blanks, Lit("|")>>

\* (\|\s*\d+\s*\|\s*TITLE\s*\|\s*[\d,N/A]+\s*\|)\s*Unknown\s*\|\s*Unknown\s*\|
newEntryPattern(escapedTitle) ==
    Concat(<< <<Lit("|"), Blanks, Item(FALSE, DigitSet, "+"), Blanks, Lit("|"), Blanks>>,
              CompileSource(escapedTitle, <<>>),
              <<Blanks, Lit("|"), Blanks, Item(FALSE, FollowersClass, "+"), Blanks, Lit("|"),
                GroupEnd>>,
              PlaceholderColumns >>)

\* (\|\s*\d+\s*\|\s*\d+\s*\|\s*\+\d+\s*\|\s*TITLE\s*\|\s*[\d,N/A]+\s*\|)\s*Unknown\s*\|\s*Unknown\s*\|
riserPattern(escapedTitle) ==
    Concat(<< <<Lit("|"), Blanks, Item(FALSE, DigitSet, "+"), Blanks, Lit("|"), Blanks,
                Item(FALSE, DigitSet, "+"), Blanks, Lit("|"), Blanks,
                Lit("+"), Item(FALSE, DigitSet, "+"), Blanks, Lit("|"), Blanks>>,
              CompileSource(escapedTitle, <<>>),
              <<Blanks, Lit("|"), Blanks, Item(FALSE, FollowersClass, "+"), Blanks, Lit("|"),
                GroupEnd>>,
              PlaceholderColumns >>)

\* `$1 ${developer} | ${publisher} |`
TemplateWithoutPrefix(developer, publisher) ==
    Concat(<< <<" ">>, developer, <<" ", "|", " ">>, publisher, <<" ", "|">> >>)
ReplacementTemplate(developer, publisher) ==
    Concat(<< <<"$", "1", " ">>, developer, <<" ", "|", " ">>, publisher, <<" ", "|">> >>)

\* the content enrichWatchlist ends with, and whether it differs
MergeText(content, data) ==
    LET escapedTitle == EscapeRegex(data.title)
        template == ReplacementTemplate(data.developer, data.publisher)
        afterNew == ReplaceAll(content, newEntryPattern(escapedTitle), template)
        afterRisers == ReplaceAll(afterNew, riserPattern(escapedTitle), template)
    IN [content |-> afterRisers, updated |-> afterRisers # content]

(***************************************************************************)
(* The files of reports/ and watchlists/.  A file is named by the          *)
(* timestamp of the run that wrote it; the directory listing is sorted by  *)
(* name.                                                                   *)
(***************************************************************************)
\* getTimestamp: the date of toISOString (UTC), then the time of day of
\* toTimeString (local time), as <<date, time>>
getTimestamp(clock, offset) == <<clock \div DayLen, (clock + offset) % DayLen>>

\* the offsets of the hosts of the model: UTC, and one second east of it
Offsets == {0, 1}

\* files.sort(): the order of the names report_<date>_<time>.json, which
\* have the same length
NameLess(a, b) == a[1] < b[1] \/ (a[1] = b[1] /\ a[2] < b[2])

HasName(names, name) == \E i \in DOMAIN names : names[i] = name

\* the place of a name in the sorted listing
PlaceFor(names, name) == 1 + Cardinality({ i \in DOMAIN names : NameLess(names[i], name) })

InsertAt(seq, k, x) == SubSeq(seq, 1, k - 1) \o <<x>> \o SubSeq(seq, k, Len(seq))

\* fs.writeFileSync: the listing after the write of the file of that name
WriteName(names, name) ==
    IF HasName(names, name) THEN names ELSE InsertAt(names, PlaceFor(names, name), name)

\* fs.writeFileSync: the contents after the write; a file of the same name
\* is overwritten
WriteFile(files, names, name, content) ==
    IF HasName(names, name) THEN [files EXCEPT ![PlaceFor(names, name)] = content]
    ELSE InsertAt(files, PlaceFor(names, name), content)

\* getPreviousReport and previousData?.games || []: the games of the last
\* report_*.json in filename order, [] when there is none
getPreviousReport(files) ==
    IF Len(files) = 0 THEN Present(<<>>) ELSE Present(files[Len(files)].games)

\* getLatestWatchlist: the place of the last watchlist_*.md in filename
\* order, 0 (null) when there is none
getLatestWatchlist(files) == Len(files)

\* processGames is called without watchlistJson by the pipeline
NoWatchlistData == <<>>

Valve == <<"V", "a", "l", "v", "e">>
\* a developer name that holds the replacement pattern of the whole match
MatchPattern == <<"$", "&", " ", "G", "a", "m", "e", "s">>

\* the enrichment data enrich-watchlist.js is called with
Records ==
    { [title |-> t, developer |-> d, publisher |-> p] :
        t \in Titles, d \in {Valve, Unknown, MatchPattern}, p \in {Valve, Unknown} }

NoRecord == [title |-> <<>>, developer |-> <<>>, publisher |-> <<>>]

\* the lists scraped in the runs of the model
GameA1 == Game(1, TitleA, <<"1", "0">>, <<1500>>)
GameA2 == Game(2, TitleA, <<"1", "0">>, <<1500>>)
GameB1 == Game(1, TitleB, <<"2", "0">>, <<0>>)
GameB2 == Game(2, TitleB, <<"2", "0">>, <<0>>)
GameC1 == Game(1, TitleC, <<>>, <<>>)
GameC2 == Game(2, TitleC, <<"3", "0">>, <<>>)

ScrapedLists == { <<>>, <<GameA1>>, <<GameA1, GameB2>>, <<GameB1, GameA2>>, <<GameA1, GameC2>>, <<GameC1, GameB2>>, <<GameA1, GameA2>> }

\* the reports directory before the run: empty, or one earlier report
EarlierReports ==
    { <<>>,
      << [games |-> <<Game(1, TitleB, <<"2", "0">>, <<0>>)>>] >>,
      << [games |-> <<Game(4, TitleA, <<"1", "0">>, <<7>>), Game(5, TitleB, <<"2", "0">>, <<0>>)>>] >> }

\* Rows in the layout the patterns of enrichWatchlist are written for:
\* | rank | title | followers | Unknown | Unknown |
\* | rank | prevRank | change | title | followers | Unknown | Unknown |
FiveColumnRow(game) ==
    Concat(<< <<"|", " ">>, NumToChars(game.rank), <<" ", "|", " ">>, game.title, <<" ", "|", " ">>,
              formatFollowers(game.followers), <<" ", "|", " ">>, Unknown, <<" ", "|", " ">>, Unknown, <<" ", "|", "\n">> >>)

SevenColumnRow(game) ==
    Concat(<< <<"|", " ">>, NumToChars(game.rank), <<" ", "|", " ">>, NumToChars(game.previousRank), <<" ", "|", " ", "+">>,
              NumToChars(game.change), <<" ", "|", " ">>, game.title, <<" ", "|", " ">>,
              formatFollowers(game.followers), <<" ", "|", " ">>, Unknown, <<" ", "|", " ">>, Unknown, <<" ", "|", "\n">> >>)

RECURSIVE FiveColumnRows(_)
FiveColumnRows(games) ==
    IF games = <<>> THEN <<>> ELSE FiveColumnRow(Head(games)) \o FiveColumnRows(Tail(games))

RECURSIVE SevenColumnRows(_)
SevenColumnRows(games) ==
    IF games = <<>> THEN <<>> ELSE SevenColumnRow(Head(games)) \o SevenColumnRows(Tail(games))

\* a watchlist of that layout
WatchlistWithoutAppId(chg) ==
    Concat(<< <<"#", "#", " ", "N", "e", "w", " ", "t", "o", " ", "T", "o", "p", " ", "2", "0", "0",
      "\n", "\n">>, FiveColumnRows(chg.newEntries),
              <<"\n", "#", "#", " ", "R", "i", "s", "i", "n", "g", " ", "T", "i", "t", "l", "e", "s",
      " ", "(", "U", "p", " ", "3", "+", " ", "S", "p", "o", "t", "s", ")", "\n", "\n">>, SevenColumnRows(chg.risers) >>)

\* the watchlists such a directory holds when enrich-watchlist.js is called
ExistingWatchlists ==
    { WatchlistWithoutAppId(findChanges(cur, getPreviousReport(rep))) :
        cur \in {<<GameA1, GameC2>>, <<GameA1, GameB2>>, <<GameA1, GameA2>>}, rep \in EarlierReports \ {<<>>} }

\* the result of a child process writing a file: done, or an error thrown
\* by fs (the process ends with a non-zero exit code)
IoOutcomes == {"ok", "error"}

\* ensureDirectories
ensureDirectories == dirs' = dirs \cup {"reports", "watchlists"}

\* processGames of tracker.js on the list in currentGames
processGames(io) ==
    /\ ensureDirectories
    /\ timestamp' = getTimestamp(now, tz)
    /\ \/ /\ Len(currentGames) = 0
          /\ exitCode' = 1
          /\ UNCHANGED <<previousGames, changes, reports, reportNames, watchlists,
                         watchlistNames, captured>>
       \/ /\ Len(currentGames) # 0
          /\ io = "error"
          /\ exitCode' = 1
          /\ UNCHANGED <<previousGames, changes, reports, reportNames, watchlists,
                         watchlistNames, captured>>
       \/ /\ Len(currentGames) # 0
          /\ io = "ok"
          /\ previousGames' = getPreviousReport(reports)
          /\ changes' = findChanges(currentGames, previousGames')
          /\ reports' = WriteFile(reports, reportNames, timestamp', [games |-> currentGames])
          /\ reportNames' = WriteName(reportNames, timestamp')
          /\ watchlists' = WriteFile(watchlists, watchlistNames, timestamp',
                                     generateWatchlist(changes', NoWatchlistData))
          /\ watchlistNames' = WriteName(watchlistNames, timestamp')
          /\ captured' = Append(captured, [games |-> currentGames])
          /\ exitCode' = 0

\* enrichWatchlist of enrich-watchlist.js
enrichWatchlist(data) ==
    /\ record' = data
    /\ \/ /\ getLatestWatchlist(watchlists) = 0
          /\ updated' = FALSE
          /\ exitCode' = 1
          /\ UNCHANGED watchlists
       \/ /\ getLatestWatchlist(watchlists) # 0
          /\ \E at \in {getLatestWatchlist(watchlists)} :
                \E m \in {MergeText(watchlists[at], data)} :
                   /\ updated' = m.updated
                   /\ watchlists' = IF m.updated THEN [watchlists EXCEPT ![at] = m.content]
                                    ELSE watchlists
          /\ exitCode' = 0

NoDetails == [developer |-> <<>>, publisher |-> <<>>]

NoEmail == [success |-> FALSE, reason |-> "", read |-> FALSE, sent |-> 0]

NoMail == [mailer |-> "", env |-> {}, transport |-> ""]

\* main of run-daily.js has not run
DriverIdle ==
    /\ gamesToEnrich = <<>>
    /\ cursor = 0
    /\ details = NoDetails
    /\ emailResult = NoEmail
    /\ events = <<>>
    /\ driverExit = 0
    /\ mail = NoMail

(***************************************************************************)
(* tracker.js called once, and enrich-watchlist.js called on the latest    *)
(* watchlist of the directory.                                             *)
(***************************************************************************)
Init ==
    /\ changes = NoChanges
    /\ previousGames = Absent
    /\ record = NoRecord
    /\ updated = FALSE
    /\ merges = 0
    /\ exitCode = 0
    /\ now = 1
    /\ tz = 0
    /\ timestamp = <<0, 0>>
    /\ runs = 0
    /\ DriverIdle
    /\ \/ /\ pc = "scraped"
          /\ currentGames \in ScrapedLists
          /\ reports \in EarlierReports
          /\ reportNames = IF reports = <<>> THEN <<>> ELSE <<getTimestamp(0, tz)>>
          /\ captured = reports
          /\ dirs = IF reports = <<>> THEN {} ELSE {"reports", "watchlists"}
          /\ watchlists = <<>>
          /\ watchlistNames = <<>>
       \/ /\ pc = "noargs"
          /\ currentGames = <<>>
          /\ reports = <<>>
          /\ reportNames = <<>>
          /\ captured = <<>>
          /\ dirs = {}
          /\ watchlists = <<>>
          /\ watchlistNames = <<>>
       \/ /\ pc = "standalone"
          /\ currentGames = <<>>
          /\ reports = <<>>
          /\ reportNames = <<>>
          /\ captured = <<>>
          /\ watchlists \in {<<>>} \cup { <<w>> : w \in ExistingWatchlists }
          /\ watchlistNames = IF watchlists = <<>> THEN <<>> ELSE <<getTimestamp(0, tz)>>
          /\ dirs = IF watchlists = <<>> THEN {} ELSE {"reports", "watchlists"}

\* tracker.js called without its argument: the usage message and exit(1)
TrackerUsage ==
    /\ pc = "noargs"
    /\ pc' = "exit"
    /\ exitCode' = 1
    /\ UNCHANGED <<currentGames, previousGames, changes, record, updated, merges, timestamp,
                   captured, runs, storeVars, clockVars, driverVars>>

\* tracker.js: processGames on the scraped list
Track ==
    /\ pc = "scraped"
    /\ \E io \in IoOutcomes : processGames(io)
    /\ pc' = IF exitCode' = 0 THEN "tracked" ELSE "exit"
    /\ UNCHANGED <<currentGames, record, updated, merges, runs, clockVars, driverVars>>

\* enrich-watchlist.js: enrichWatchlist(data)
Enrich(data) ==
    /\ pc \in {"tracked", "standalone"}
    /\ merges < MaxMerges
    /\ merges' = merges + 1
    /\ enrichWatchlist(data)
    /\ UNCHANGED <<currentGames, previousGames, changes, reports, pc, reportNames,
                   watchlistNames, dirs, timestamp, captured, runs, clockVars, driverVars>>

Next ==
    \/ TrackerUsage
    \/ Track
    \/ \E data \in Records : Enrich(data)

Spec == Init /\ [][Next]_vars

(***************************************************************************)
(* tracker.js called again and again, as the clock goes on.                *)
(***************************************************************************)
\* the lists of the runs
RunLists == { <<>>, <<GameA1>>, <<GameB1, GameA2>> }

\* the directories before the first run: those of a new checkout, or those
\* an earlier run left at second 0
InitRuns ==
    /\ pc = "idle"
    /\ currentGames = <<>>
    /\ changes = NoChanges
    /\ previousGames = Absent
    /\ record = NoRecord
    /\ updated = FALSE
    /\ merges = 0
    /\ exitCode = 0
    /\ now = 0
    /\ tz \in Offsets
    /\ timestamp = <<0, 0>>
    /\ runs = 0
    /\ DriverIdle
    /\ reports \in EarlierReports
    /\ captured = reports
    /\ reportNames = IF reports = <<>> THEN <<>> ELSE <<getTimestamp(0, tz)>>
    /\ watchlists = IF reports = <<>> THEN <<>> ELSE <<generateWatchlist(FirstRunResult, NoWatchlistData)>>
    /\ watchlistNames = reportNames
    /\ dirs = IF reports = <<>> THEN {} ELSE {"reports", "watchlists"}

\* the next run is started, with the list scraped for it
Invoke ==
    /\ pc \in {"idle", "tracked", "exit"}
    /\ runs < MaxRuns
    /\ runs' = runs + 1
    /\ \E elapsed \in 0..MaxElapsed : now' = now + elapsed
    /\ currentGames' \in RunLists
    /\ pc' = "scraped"
    /\ UNCHANGED <<previousGames, changes, record, updated, merges, exitCode, timestamp,
                   captured, tz, storeVars, driverVars>>

NextRuns ==
    \/ Invoke
    \/ Track

SpecRuns == InitRuns /\ [][NextRuns]_vars


(***************************************************************************)
(* tracker.js called once on a list that holds games whose titles are      *)
(* numbers, and enrich-watchlist.js called on the watchlist it wrote.      *)
(***************************************************************************)
Title7 == <<"7">>
Title12 == <<"1", "2">>

\* games of such titles: the followers count of the second reads as the
\* title of the first
Game7(r) == Game(r, Title7, <<"7", "0">>, <<1500>>)
Game12(r) == Game(r, Title12, <<"1", "2", "0">>, <<7>>)

NumberedLists ==
    { <<Game7(1)>>, <<Game12(1)>>, <<Game7(1), Game12(2)>>, <<Game12(1), Game7(2)>>,
      <<GameA1, Game12(2)>>, <<Game12(1), GameA2>>, <<GameA1, Game7(2)>>, <<GameA1, GameB2>>,
      <<Game12(1), GameA2, Game7(3)>>, <<GameA1, Game7(2), Game12(3)>> }

\* the reports directory before the run: one earlier report
NumberedReports ==
    { << [games |-> <<Game(1, TitleB, <<"2", "0">>, <<0>>)>>] >>,
      << [games |-> <<Game(4, Title12, <<"1", "2", "0">>, <<7>>), Game7(5)>>] >>,
      << [games |-> <<Game(4, TitleA, <<"1", "0">>, <<7>>), Game12(5)>>] >> }

NumberedRecords ==
    { [title |-> t, developer |-> Valve, publisher |-> Valve] : t \in {TitleA, Title7, Title12} }

InitNumbered ==
    /\ pc = "scraped"
    /\ now = 1
    /\ tz = 0
    /\ currentGames \in NumberedLists
    /\ reports \in NumberedReports
    /\ reportNames = <<getTimestamp(0, tz)>>
    /\ captured = reports
    /\ dirs = {"reports", "watchlists"}
    /\ watchlists = <<>>
    /\ watchlistNames = <<>>
    /\ changes = NoChanges
    /\ previousGames = Absent
    /\ record = NoRecord
    /\ updated = FALSE
    /\ merges = 0
    /\ exitCode = 0
    /\ timestamp = <<0, 0>>
    /\ runs = 0
    /\ DriverIdle

NextNumbered ==
    \/ Track
    \/ \E data \in NumberedRecords : Enrich(data)

SpecNumbered == InitNumbered /\ [][NextNumbered]_vars

(***************************************************************************)
(* Claims about enrichWatchlist (checked under Spec).                      *)
(***************************************************************************)
\* the watchlist enrichWatchlist reads and writes
Latest == watchlists[Len(watchlists)]

\* the pieces of text between the separators
RECURSIVE SplitFrom(_, _, _)
SplitFrom(text, sep, pos) ==
    LET at == { p \in pos..Len(text) : text[p] = sep }
    IN IF at = {} THEN <<SubSeq(text, pos, Len(text))>>
       ELSE LET p == CHOOSE q \in at : \A r \in at : q <= r
            IN <<SubSeq(text, pos, p - 1)>> \o SplitFrom(text, sep, p + 1)

LinesOf(text) == SplitFrom(text, "\n", 1)

RECURSIVE Trim(_)
Trim(s) ==
    IF s = <<>> THEN s
    ELSE IF Head(s) = " " THEN Trim(Tail(s))
    ELSE IF s[Len(s)] = " " THEN Trim(SubSeq(s, 1, Len(s) - 1))
    ELSE s

\* the columns of a table line: the text between its bars, without the blanks around it
ColumnsOf(line) ==
    LET pieces == SplitFrom(line, "|", 1)
    IN [i \in 1..(Len(pieces) - 2) |-> Trim(pieces[i + 1])]

IsNumber(s) == s # <<>> /\ \A i \in 1..Len(s) : s[i] \in DigitSet

\* a row of a game: a table line whose first column is a rank
IsGameRow(line) ==
    /\ line # <<>>
    /\ Head(line) = "|"
    /\ Len(ColumnsOf(line)) >= 5
    /\ IsNumber(ColumnsOf(line)[1])

\* a riser row has the change, +n, in its third column
IsRiserRow(line) == ColumnsOf(line)[3] # <<>> /\ Head(ColumnsOf(line)[3]) = "+"

\* the identifier column of a row
TitleOfRow(line) == IF IsRiserRow(line) THEN ColumnsOf(line)[4] ELSE ColumnsOf(line)[2]

\* rank, (previous rank, change,) title, followers
LeadingColumns(line) ==
    SubSeq(ColumnsOf(line), 1, IF IsRiserRow(line) THEN 5 ELSE 3)

\* the developer and publisher columns: the last two
PlaceholdersLeft(line) ==
    LET cols == ColumnsOf(line)
    IN cols[Len(cols) - 1] = Unknown /\ cols[Len(cols)] = Unknown

\* the rows of games of a watchlist
GameRowsOf(text) == { line \in { LinesOf(text)[i] : i \in DOMAIN LinesOf(text) } : IsGameRow(line) }

\* a step that is a call of enrichWatchlist on a watchlist
MergeStep == merges' = merges + 1 /\ watchlists # <<>>

\* C7: the merge is idempotent: a second enrichWatchlist with the record of
\* the first reports updated = false and leaves the text as the first left it.
C7_SecondMergeIsNoOp ==
    [][(MergeStep /\ merges >= 1 /\ record' = record)
        => (updated' = FALSE /\ watchlists' = watchlists)]_vars

\* the rows generateWatchlist wrote for the title, with the two last columns
\* reading developer and publisher
EnrichedRowsFor(data) ==
    { NewEntryRow(changes.newEntries[i], data) :
        i \in { j \in 1..Len(changes.newEntries) : changes.newEntries[j].title = data.title } }
    \cup
    { RiserRow(changes.risers[i], data) :
        i \in { j \in 1..Len(changes.risers) : changes.risers[j].title = data.title } }

HasLine(text, row) == \E line \in { LinesOf(text)[i] : i \in DOMAIN LinesOf(text) } : line \o <<"\n">> = row

\* C8: on a watchlist written by generateWatchlist from a non-baseline diff
\* without pre-known data, a merge whose title is that of a new-entry row or
\* of a riser row replaces the two "Unknown" columns of the row with the
\* record's developer and publisher, also when the title holds regex
\* metacharacters.
C8_MergeFillsRenderedRow ==
    (pc = "tracked" /\ ~changes.isFirstRun /\ merges = 1)
    => \A row \in EnrichedRowsFor(record) : HasLine(Latest, row)

\* C9: a merge changes no line but rows whose identifier column is the
\* record's title, and of such a row it leaves the leading columns (rank,
\* previous rank, change, title, followers) as they were.
\* (Holds under Spec; under SpecNumbered, where titles are numbers, a merge
\* changes the row of another title.)
C9_MergeKeepsOtherRowsAndColumns ==
    [][MergeStep =>
        \A old \in {LinesOf(Latest)} : \A new \in {LinesOf(Latest')} :
           /\ Len(new) = Len(old)
           /\ \A i \in 1..Len(old) :
                 old[i] # new[i] =>
                    /\ IsGameRow(old[i])
                    /\ TitleOfRow(old[i]) = record'.title
                    /\ IsGameRow(new[i])
                    /\ LeadingColumns(new[i]) = LeadingColumns(old[i])]_vars

\* a merge has filled the row of title A and left a row of another title alone
C9_Witness ==
    /\ pc = "standalone"
    /\ updated
    /\ record.title = TitleA
    /\ \E line \in GameRowsOf(Latest) :
          TitleOfRow(line) = TitleA /\ ~PlaceholdersLeft(line)
    /\ \E line \in GameRowsOf(Latest) :
          TitleOfRow(line) # TitleA /\ PlaceholdersLeft(line)

\* C10: once the developer and publisher columns of a row no longer both
\* read "Unknown", no later merge, whatever its record, changes the row.
C10_FilledRowNeverChangesAgain ==
    [][MergeStep =>
        \A old \in {LinesOf(Latest)} : \A new \in {LinesOf(Latest')} :
           \A i \in 1..Len(old) :
              (IsGameRow(old[i]) /\ ~PlaceholdersLeft(old[i]))
              => (i <= Len(new) /\ new[i] = old[i])]_vars

(***************************************************************************)
(* Claims about a merge that matches no row, and about the order of        *)
(* merges (checked under Spec).                                            *)
(***************************************************************************)
\* a step that is a call of enrichWatchlist
EnrichCall == merges' = merges + 1

\* no row of the latest watchlist has the title and still reads "Unknown" in
\* its last two columns, or there is no watchlist
NoRowToFill(data) ==
    \/ watchlists = <<>>
    \/ \A line \in GameRowsOf(Latest) : TitleOfRow(line) # data.title \/ ~PlaceholdersLeft(line)

\* C11: when no row matches (title not in the watchlist, row already
\* enriched, or no watchlist at all), enrichWatchlist reports updated = false,
\* writes nothing and ends as a normal outcome: exit code 0, not an error.
C11_NoMatchIsNormalOutcome ==
    [][(EnrichCall /\ NoRowToFill(record'))
        => (updated' = FALSE /\ watchlists' = watchlists /\ exitCode' = 0)]_vars

\* the text after enrichWatchlist(data) on the text
Merged(text, data) == MergeText(text, data).content

\* C12: merges are order-independent: two records of different titles give
\* the same text in either order, and repeating one of them in between or
\* afterwards does not change that text.
C12_MergesCommute ==
    (pc = "standalone" /\ merges = 0 /\ watchlists # <<>>)
    => \A r1 \in Records : \A r2 \in { r \in Records : r.title # r1.title } :
          \A both \in {Merged(Merged(Latest, r1), r2)} :
             /\ Merged(Merged(Latest, r2), r1) = both
             /\ Merged(both, r1) = both
             /\ Merged(Merged(Merged(Latest, r1), r1), r2) = both

(***************************************************************************)
(* parseWatchlistMarkdown of email-notify.js                               *)
(***************************************************************************)
\* the texts parseWatchlistMarkdown looks for
NewTo100 == <<"#", "#", " ", "N", "e", "w", " ", "t", "o", " ", "T", "o", "p", " ", "1", "0", "0", "\n", "\n">>
NewTo200 == <<"#", "#", " ", "N", "e", "w", " ", "t", "o", " ", "T", "o", "p", " ", "2", "0", "0", "\n", "\n">>
RisingMark == <<"#", "#", " ", "R", "i", "s", "i", "n", "g">>
RisingTitles == <<"#", "#", " ", "R", "i", "s", "i", "n", "g", " ", "T", "i", "t", "l", "e", "s">>
NoNewEntriesText == <<"N", "o", " ", "n", "e", "w", " ", "e", "n", "t", "r", "i", "e", "s">>
NoRisersText == <<"N", "o", " ", "s", "i", "g", "n", "i", "f", "i", "c", "a", "n", "t", " ", "r", "i", "s", "e", "r", "s">>
FirstRunText == <<"f", "i", "r", "s", "t", " ", "r", "u", "n">>

\* String.prototype.indexOf from a place on: the first place of the needle,
\* 0 when there is none
IndexOf(text, needle, from) ==
    LET places == { q \in from..(Len(text) - Len(needle) + 1) :
                      SubSeq(text, q, q + Len(needle) - 1) = needle }
    IN IF places = {} THEN 0 ELSE CHOOSE q \in places : \A r \in places : q <= r

\* String.prototype.includes
Includes(text, needle) == IndexOf(text, needle, 1) # 0

\* /\| \d+ \|[^\n]+/
RowPattern ==
    <<Lit("|"), Lit(" "), Item(FALSE, DigitSet, "+"), Lit(" "), Lit("|"),
      Item(TRUE, {"\n"}, "+")>>

\* String.prototype.match with a global pattern: the matched texts, left to
\* right, the search going on after the end of the last match
RECURSIVE MatchAllFrom(_, _, _)
MatchAllFrom(text, pat, pos) ==
    LET places == MatchPlaces(text, pat, pos)
    IN IF places = {} THEN <<>>
       ELSE LET q == CHOOSE a \in places : \A b \in places : a <= b
                m == MatchAt(text, pat, q)
            IN <<SubSeq(text, q, m.end - 1)>> \o MatchAllFrom(text, pat, m.end)

\* row.split('|').map(c => c.trim()).filter(Boolean)
CellsOf(row) ==
    LET pieces == SplitFrom(row, "|", 1)
    IN SelectSeq([i \in 1..Len(pieces) |-> Trim(pieces[i])], LAMBDA c : c # <<>>)

\* cells[k] || other, k counted from 0 as in the code
CellOr(cells, k, other) == IF k + 1 <= Len(cells) THEN cells[k + 1] ELSE other

\* the group of /## New to Top (?:100|200)\n\n([\s\S]*?)(?=## Rising|$)/:
\* the text from the end of the first such heading up to the next
\* "## Rising", or to the end of the content
NewEntriesMatch(content) ==
    LET heads == { q \in { IndexOf(content, NewTo100, 1), IndexOf(content, NewTo200, 1) } : q # 0 }
    IN IF heads = {} THEN [ok |-> FALSE, text |-> <<>>]
       ELSE LET from == (CHOOSE q \in heads : \A r \in heads : q <= r) + Len(NewTo200)
                rising == IndexOf(content, RisingMark, from)
            IN [ok |-> TRUE,
                text |-> SubSeq(content, from, IF rising = 0 THEN Len(content) ELSE rising - 1)]

\* the group of /## Rising Titles[^\n]*\n\n([\s\S]*?)$/: the text from the
\* end of the first such heading line that a blank line follows, up to the
\* end of the content
RisersMatch(content) ==
    LET heads == { q \in 1..(Len(content) - Len(RisingTitles) + 1) :
                     /\ SubSeq(content, q, q + Len(RisingTitles) - 1) = RisingTitles
                     /\ \E e \in {IndexOf(content, <<"\n">>, q)} :
                           e # 0 /\ e + 1 <= Len(content) /\ content[e + 1] = "\n" }
    IN IF heads = {} THEN [ok |-> FALSE, text |-> <<>>]
       ELSE LET q == CHOOSE a \in heads : \A b \in heads : a <= b
            IN [ok |-> TRUE,
                text |-> SubSeq(content, IndexOf(content, <<"\n">>, q) + 2, Len(content))]

\* result.newEntries.push({...}) for the rows of at least 4 cells
ParsedNewEntries(rows) ==
    LET cells == SelectSeq([i \in 1..Len(rows) |-> CellsOf(rows[i])], LAMBDA c : Len(c) >= 4)
    IN [i \in 1..Len(cells) |->
          [rank |-> cells[i][1], title |-> cells[i][2], followers |-> cells[i][3],
           developer |-> CellOr(cells[i], 3, Unknown),
           publisher |-> CellOr(cells[i], 4, CellOr(cells[i], 3, Unknown))]]

\* result.risers.push({...}) for the rows of at least 5 cells
ParsedRisers(rows) ==
    LET cells == SelectSeq([i \in 1..Len(rows) |-> CellsOf(rows[i])], LAMBDA c : Len(c) >= 5)
    IN [i \in 1..Len(cells) |->
          [currentRank |-> cells[i][1], previousRank |-> cells[i][2], change |-> cells[i][3],
           title |-> cells[i][4], followers |-> cells[i][5],
           developer |-> CellOr(cells[i], 5, Unknown),
           publisher |-> CellOr(cells[i], 6, CellOr(cells[i], 5, Unknown))]]

parseWatchlistMarkdown(content) ==
    LET newEntriesMatch == NewEntriesMatch(content)
        risersMatch == RisersMatch(content)
    IN [newEntries |->
           IF newEntriesMatch.ok /\ ~Includes(newEntriesMatch.text, NoNewEntriesText)
           THEN ParsedNewEntries(MatchAllFrom(newEntriesMatch.text, RowPattern, 1))
           ELSE <<>>,
        risers |->
           IF risersMatch.ok /\ ~Includes(risersMatch.text, NoRisersText)
           THEN ParsedRisers(MatchAllFrom(risersMatch.text, RowPattern, 1))
           ELSE <<>>,
        isFirstRun |-> Includes(content, FirstRunText)]

\* the line of a text that holds place p
LineAround(text, p) ==
    LET before == { q \in 1..(p - 1) : text[q] = "\n" }
        after == { q \in p..Len(text) : text[q] = "\n" }
        first == IF before = {} THEN 1
                 ELSE 1 + CHOOSE q \in before : \A r \in before : r <= q
        last == IF after = {} THEN Len(text)
                ELSE (CHOOSE q \in after : \A r \in after : q <= r) - 1
    IN SubSeq(text, first, last)

\* the row a match that starts at place p lies in is a riser row
InRiserRow(text, p) == IsGameRow(LineAround(text, p)) /\ IsRiserRow(LineAround(text, p))

\* C21: on a watchlist tracker.js rendered from a diff, a call of
\* enrichWatchlist matches with at most one of its two patterns; no title has
\* a row with placeholders in both sections; the pattern of the new entries
\* matches in no riser row, and the pattern of the risers in no other row
\* than a riser row.  (Checked under SpecNumbered.)
C21_OneRowShapePerMerge ==
    [][(MergeStep /\ pc = "tracked" /\ ~changes.isFirstRun) =>
        \A text \in {Latest} : \A title \in {EscapeRegex(record'.title)} :
        \A newPlaces \in {MatchPlaces(text, newEntryPattern(title), 1)} :
        \A afterNew \in {ReplaceAll(text, newEntryPattern(title),
                                    ReplacementTemplate(record'.developer, record'.publisher))} :
        \A riserPlaces \in {MatchPlaces(afterNew, riserPattern(title), 1)} :
           /\ newPlaces = {} \/ riserPlaces = {}
           /\ \A a, b \in GameRowsOf(text) :
                 (TitleOfRow(a) = TitleOfRow(b) /\ PlaceholdersLeft(a) /\ PlaceholdersLeft(b))
                 => (IsRiserRow(a) <=> IsRiserRow(b))
           /\ \A p \in newPlaces : ~InRiserRow(text, p)
           /\ \A p \in riserPlaces : InRiserRow(afterNew, p)]_vars

(***************************************************************************)
(* Claims about the runs of tracker.js over time (checked under SpecRuns). *)
(***************************************************************************)
\* a step in which processGames has saved its report
SavedReport == pc = "scraped" /\ pc' = "tracked"

\* the list the most recent earlier successful run saved
MostRecentCapture ==
    IF captured = <<>> THEN Present(<<>>) ELSE Present(captured[Len(captured)].games)

\* C13: the previous snapshot a run diffs against is the one captured by the
\* most recent earlier successful run.
C13_DiffAgainstMostRecentRun ==
    [][SavedReport => previousGames' = MostRecentCapture]_vars

\* C14: the snapshot store is append-only: every snapshot an earlier
\* successful run wrote is still stored with its content, and there are as
\* many stored snapshots as successful runs.
C14_SnapshotStoreAppendOnly ==
    /\ Len(reports) = Len(captured)
    /\ \A i \in DOMAIN captured : \E k \in DOMAIN reports : reports[k] = captured[i]

(***************************************************************************)
(* Claim about a run without a list (checked under Spec).                  *)
(***************************************************************************)
\* tracker.js ends on a list that is empty or not given
EndsWithoutList == pc \in {"noargs", "scraped"} /\ currentGames = <<>> /\ pc' # pc

\* C16: on an empty or missing list the run ends with a non-zero exit code
\* before anything is written: no report, no watchlist and no directory is
\* created or changed, and no enrichment is attempted.
C16_EmptyListWritesNothing ==
    [][EndsWithoutList
        => (pc' = "exit" /\ exitCode' # 0 /\ UNCHANGED storeVars /\ merges' = merges)]_vars

(***************************************************************************)
(* One run of run-daily.js (main), and email-notify.js called on its own.  *)
(***************************************************************************)
\* a list with a game that has no appId
GameB2NoAppId == Game(2, TitleB, <<>>, <<0>>)

\* the lists scrapeTop200 returns in the runs of the model
DailyLists ==
    { <<>>, <<GameA1>>, <<GameA1, GameB2>>, <<GameC1, GameB2>>, <<GameA1, GameB2NoAppId>> }

\* a call main has made, the item of gamesToEnrich it was made for (0 when
\* it is not made for an item), and how it ended
Ev(op, i, result) == [op |-> op, item |-> i, result |-> result]

\* parseEnrichmentData on the output of tracker.js: the list processGames
\* prints between its markers, [] when it prints none
parseEnrichmentData(chg) ==
    IF chg.isFirstRun THEN <<>> ELSE chg.newEntries \o chg.risers

\* for (const game of gamesToEnrich) if (game.appId): the next item from
\* that place on that has an appId, or the place behind the list
NextWithAppId(list, from) ==
    LET with == { j \in from..Len(list) : list[j].appId # <<>> }
    IN IF with = {} THEN Len(list) + 1 ELSE CHOOSE j \in with : \A k \in with : j <= k

\* how a scrapeGameDetails call ends: with the developer and publisher of
\* the page, with the placeholders after a failure, or with an exception
DetailOutcomes == {"found", "unknown", "throws"}

scrapeGameDetails(outcome) ==
    IF outcome = "found" THEN [developer |-> Valve, publisher |-> Valve]
    ELSE [developer |-> Unknown, publisher |-> Unknown]

\* the two versions of sendNotification: by Resend, and by the Make.com webhook
Mailers == {"resend", "webhook"}

\* the environment variables sendNotification reads
EnvNames == {"RESEND_API_KEY", "EMAIL_TO", "MAKERS_WEBHOOK_URL", "MAKERS_API_KEY"}

\* how the call of the transport ends: success, an error response, an exception
TransportOutcomes == {"ok", "error", "exception"}

\* the result of sendNotification, whether it has read the watchlist, and
\* the number of calls of the transport
Result(success, reason, read, sent) ==
    [success |-> success, reason |-> reason, read |-> read, sent |-> sent]

DeliveredAlways(transport) == TRUE

\* if (error) / if (!response.ok): the transport reports success only on "ok"
Delivered(transport) == transport = "ok"

\* sendNotification by Resend; latest is the result of getLatestWatchlist
sendNotificationResend(env, latest, transport) ==
    IF "RESEND_API_KEY" \notin env THEN Result(FALSE, "no_api_key", FALSE, 0)
    ELSE IF "EMAIL_TO" \notin env THEN Result(FALSE, "no_recipient", FALSE, 0)
    ELSE IF latest = 0 THEN Result(FALSE, "no_watchlist", FALSE, 0)
    ELSE IF transport = "exception" THEN Result(FALSE, "exception", TRUE, 1)
    ELSE IF ~Delivered(transport) THEN Result(FALSE, "send_failed", TRUE, 1)
    ELSE Result(TRUE, "", TRUE, 1)

\* sendNotification by the Make.com webhook
sendNotification(env, latest, transport) ==
    IF "MAKERS_WEBHOOK_URL" \notin env THEN Result(FALSE, "no_webhook_url", FALSE, 0)
    ELSE IF "MAKERS_API_KEY" \notin env THEN Result(FALSE, "no_api_key", FALSE, 0)
    ELSE IF latest = 0 THEN Result(FALSE, "no_watchlist", FALSE, 0)
    ELSE IF transport = "exception" THEN Result(FALSE, "exception", TRUE, 1)
    ELSE IF ~Delivered(transport) THEN Result(FALSE, "webhook_failed", TRUE, 1)
    ELSE Result(TRUE, "", TRUE, 1)

\* the call of sendNotification, in the environment and with the answer of
\* the transport that mail' records
Send ==
    /\ mail' \in [mailer : Mailers, env : SUBSET EnvNames, transport : TransportOutcomes]
    /\ emailResult' =
          IF mail'.mailer = "resend"
          THEN sendNotificationResend(mail'.env, getLatestWatchlist(watchlists), mail'.transport)
          ELSE sendNotification(mail'.env, getLatestWatchlist(watchlists), mail'.transport)

\* the position after the enrichment of the item at the cursor
AfterItem == NextWithAppId(gamesToEnrich, cursor + 1)

NotifyAnyTime == pc = "enriching"

\* the loop over gamesToEnrich has ended
LoopEnded == pc = "enriching" /\ cursor > Len(gamesToEnrich)

\* the directories before the run: those of a new checkout or those an
\* earlier run left at second 0; run-daily.js or email-notify.js is started
\* at a later second
InitDaily ==
    /\ pc \in {"main", "email"}
    /\ currentGames = <<>>
    /\ changes = NoChanges
    /\ previousGames = Absent
    /\ record = NoRecord
    /\ updated = FALSE
    /\ merges = 0
    /\ exitCode = 0
    /\ now \in 1..MaxElapsed
    /\ tz \in Offsets
    /\ timestamp = <<0, 0>>
    /\ runs = 0
    /\ DriverIdle
    /\ reports \in EarlierReports
    /\ captured = reports
    /\ reportNames = IF reports = <<>> THEN <<>> ELSE <<getTimestamp(0, tz)>>
    /\ watchlists = IF reports = <<>> THEN <<>> ELSE <<generateWatchlist(FirstRunResult, NoWatchlistData)>>
    /\ watchlistNames = reportNames
    /\ dirs = IF reports = <<>> THEN {} ELSE {"reports", "watchlists"}

\* main, step 1: scrapeTop200 and the test of games.length
Scrape ==
    /\ pc = "main"
    /\ \/ /\ currentGames' = <<>>
          /\ events' = <<Ev("scrape", 0, "throws")>>
          /\ driverExit' = 1
          /\ pc' = "failed"
       \/ /\ currentGames' = <<>>
          /\ events' = <<Ev("scrape", 0, "ok")>>
          /\ driverExit' = 1
          /\ pc' = "failed"
       \/ /\ currentGames' \in DailyLists \ {<<>>}
          /\ events' = <<Ev("scrape", 0, "ok")>>
          /\ driverExit' = 0
          /\ pc' = "games"
    /\ UNCHANGED <<previousGames, changes, record, updated, merges, exitCode, timestamp,
                   captured, runs, storeVars, clockVars, gamesToEnrich, cursor, details,
                   emailResult, mail>>

\* main, step 2: runTracker and parseEnrichmentData
RunTracker ==
    /\ pc = "games"
    /\ \E io \in IoOutcomes : processGames(io)
    /\ \/ /\ exitCode' # 0
          /\ events' = Append(events, Ev("track", 0, "failed"))
          /\ driverExit' = 1
          /\ pc' = "failed"
          /\ UNCHANGED <<gamesToEnrich, cursor>>
       \/ /\ exitCode' = 0
          /\ events' = Append(events, Ev("track", 0, "ok"))
          /\ gamesToEnrich' = parseEnrichmentData(changes')
          /\ cursor' = NextWithAppId(gamesToEnrich', 1)
          /\ driverExit' = 0
          /\ pc' = "enriching"
    /\ UNCHANGED <<currentGames, record, updated, merges, runs, clockVars, details,
                   emailResult, mail>>

\* main, step 3: scrapeGameDetails for the item at the cursor; an exception
\* is caught and the loop goes on
Lookup ==
    /\ pc = "enriching"
    /\ cursor <= Len(gamesToEnrich)
    /\ \E outcome \in DetailOutcomes :
          /\ events' = Append(events, Ev("lookup", cursor, outcome))
          /\ \/ /\ outcome = "throws"
                /\ cursor' = AfterItem
                /\ UNCHANGED <<details, pc>>
             \/ /\ outcome # "throws"
                /\ details' = scrapeGameDetails(outcome)
                /\ pc' = "lookedUp"
                /\ UNCHANGED cursor
    /\ UNCHANGED <<currentGames, previousGames, changes, record, updated, merges, exitCode,
                   timestamp, captured, runs, storeVars, clockVars, gamesToEnrich,
                   emailResult, driverExit, mail>>

\* main, step 3: enrichWatchlist (enrich-watchlist.js) for the item at the
\* cursor; it resolves whatever the exit code
Merge ==
    /\ pc = "lookedUp"
    /\ enrichWatchlist([title |-> gamesToEnrich[cursor].title,
                        developer |-> details.developer, publisher |-> details.publisher])
    /\ merges' = merges + 1
    /\ events' = Append(events, Ev("merge", cursor, IF updated' THEN "updated" ELSE "no match"))
    /\ cursor' = AfterItem
    /\ pc' = "enriching"
    /\ UNCHANGED <<currentGames, previousGames, changes, reports, reportNames, watchlistNames,
                   dirs, timestamp, captured, runs, clockVars, gamesToEnrich, details,
                   emailResult, driverExit, mail>>

\* main, step 4: sendNotification, and the end of the run
Notify ==
    /\ LoopEnded
    /\ Send
    /\ events' = Append(events, Ev("notify", 0, IF emailResult'.success THEN "sent" ELSE emailResult'.reason))
    /\ driverExit' = 0
    /\ pc' = "done"
    /\ UNCHANGED <<currentGames, previousGames, changes, record, updated, merges, exitCode,
                   timestamp, captured, runs, storeVars, clockVars, gamesToEnrich, cursor,
                   details>>

\* email-notify.js run on its own
EmailNotify ==
    /\ pc = "email"
    /\ Send
    /\ pc' = "mailed"
    /\ UNCHANGED <<currentGames, previousGames, changes, record, updated, merges, exitCode,
                   timestamp, captured, runs, storeVars, clockVars, gamesToEnrich, cursor,
                   details, events, driverExit>>

NextDaily ==
    \/ Scrape
    \/ RunTracker
    \/ Lookup
    \/ Merge
    \/ Notify
    \/ EmailNotify

SpecDaily == InitDaily /\ [][NextDaily]_vars

(***************************************************************************)
(* run-daily.js started again after a run has ended.                       *)
(***************************************************************************)
\* the next run of main: a new process, in the same second or MaxElapsed
\* seconds later, on the directories the runs before it left
Again ==
    /\ pc \in {"done", "failed"}
    /\ runs < MaxRestarts
    /\ runs' = runs + 1
    /\ \E elapsed \in {0, MaxElapsed} : now' = now + elapsed
    /\ pc' = "main"
    /\ currentGames' = <<>>
    /\ changes' = NoChanges
    /\ previousGames' = Absent
    /\ record' = NoRecord
    /\ updated' = FALSE
    /\ merges' = 0
    /\ exitCode' = 0
    /\ gamesToEnrich' = <<>>
    /\ cursor' = 0
    /\ details' = NoDetails
    /\ emailResult' = NoEmail
    /\ events' = <<>>
    /\ driverExit' = 0
    /\ mail' = NoMail
    /\ UNCHANGED <<timestamp, captured, tz, storeVars>>

NextDailyRuns ==
    \/ NextDaily
    \/ Again

SpecDailyRuns == InitDaily /\ [][NextDailyRuns]_vars

(***************************************************************************)
(* Claims about a run of run-daily.js (checked under SpecDaily).           *)
(***************************************************************************)
\* the calls main has made for the item at place i
EventsOf(op, i) == { k \in DOMAIN events : events[k].op = op /\ events[k].item = i }

\* the enrichment of the item was attempted: its details were looked up
Attempted(i) == EventsOf("lookup", i) # {}

\* the enrichment of the item failed: the lookup gave no details, or the
\* merge did not update the watchlist
FailedItem(i) ==
    \/ \E k \in EventsOf("lookup", i) : events[k].result \in {"unknown", "throws"}
    \/ \E k \in EventsOf("merge", i) : events[k].result # "updated"

\* the watchlist this run has written
WatchlistOfRun == watchlists[PlaceFor(watchlistNames, timestamp)]

\* the rows of that title in the watchlist of this run
RowsOfTitle(title) == { line \in GameRowsOf(WatchlistOfRun) : TitleOfRow(line) = title }

RunDone == pc = "done"

NoPrimaryInput == events # <<>> /\ (events[1].result = "throws" \/ currentGames = <<>>)

\* C17: run-daily.js exits non-zero only when it fails to obtain the list
\* (scrape failure or empty list); in every other run it exits zero, whatever
\* happens in the tracker, the enrichment and the notification.
C17_NonZeroExitOnlyWithoutInput ==
    (pc \in {"done", "failed"}) => (driverExit # 0 <=> NoPrimaryInput)

\* the configuration the version of sendNotification needs is in process.env
Configured ==
    IF mail.mailer = "resend" THEN {"RESEND_API_KEY", "EMAIL_TO"} \subseteq mail.env
    ELSE {"MAKERS_WEBHOOK_URL", "MAKERS_API_KEY"} \subseteq mail.env

Notified == pc \in {"done", "mailed"}

\* C18: sendNotification never aborts the run; without its configuration it
\* returns success = false with a reason code and neither reads the watchlist
\* nor calls the transport; without a watchlist, on a transport error and on
\* a transport exception it returns success = false with a reason code; it
\* returns success = true only with configuration, watchlist and a transport
\* that reported success; the transport is called at most once.
C18_NotificationNeverAborts ==
    Notified =>
       /\ pc = "done" => driverExit = 0
       /\ emailResult.sent <= 1
       /\ ~Configured =>
             /\ ~emailResult.success /\ emailResult.reason # ""
             /\ ~emailResult.read /\ emailResult.sent = 0
       /\ (watchlists = <<>> \/ mail.transport \in {"error", "exception"}) =>
             ~emailResult.success /\ emailResult.reason # ""
       /\ emailResult.success =>
             Configured /\ watchlists # <<>> /\ mail.transport = "ok"
       /\ Cardinality({ k \in DOMAIN events : events[k].op = "notify" }) <= 1

\* a run whose notification failed in the transport, and email-notify.js
\* called with its configuration where there is no watchlist
C18_Witness ==
    \/ /\ pc = "done"
       /\ Configured
       /\ mail.transport = "exception"
       /\ emailResult.reason = "exception"
    \/ /\ pc = "mailed"
       /\ Configured
       /\ watchlists = <<>>
       /\ emailResult.reason = "no_watchlist"

\* C19: in a non-baseline run the driver makes one detail lookup and one
\* merge attempt for every new entry and every riser of the diff, also for
\* those without an appId.
C19_EveryChangeLookedUpAndMerged ==
    (RunDone /\ ~changes.isFirstRun) =>
       /\ gamesToEnrich = changes.newEntries \o changes.risers
       /\ \A i \in DOMAIN gamesToEnrich :
             /\ Cardinality(EventsOf("lookup", i)) = 1
             /\ Cardinality(EventsOf("merge", i)) = 1

\* the calls made for items, lookups and merges
ItemCalls == { k \in DOMAIN events : events[k].op \in {"lookup", "merge"} }

\* C20: the stages of a run go in the order capture, diff and render,
\* enrich, notify: the watchlist is written before the first lookup, the
\* merge of an item is done before the lookup of the next item, and the
\* notification comes after the last enrichment attempt.
C20_StagesInOrder ==
    /\ \A k \in DOMAIN events :
          /\ events[k].op = "scrape" <=> k = 1
          /\ events[k].op = "track" => k = 2
          /\ events[k].op = "notify" =>
                /\ k = Len(events)
                /\ cursor > Len(gamesToEnrich)
                /\ pc = "done"
          /\ events[k].op = "merge" =>
                /\ events[k - 1].op = "lookup"
                /\ events[k - 1].item = events[k].item
    /\ ItemCalls # {} =>
          /\ Len(events) >= 2
          /\ events[2] = Ev("track", 0, "ok")
          /\ HasName(watchlistNames, timestamp)
    /\ \A k \in ItemCalls : \A l \in ItemCalls :
          (k < l /\ events[l].op = "lookup") => events[k].item < events[l].item

\* a finished run that has enriched two items and then notified
C20_Witness ==
    /\ RunDone
    /\ Len(gamesToEnrich) = 2
    /\ EventsOf("merge", 1) # {}
    /\ EventsOf("merge", 2) # {}
    /\ events[Len(events)].op = "notify"

\* a step in which main calls enrichWatchlist
MergeCall == pc = "lookedUp" /\ pc' = "enriching"

\* a step in which sendNotification, called by main, reads the watchlist
NotifyRead == pc = "enriching" /\ pc' = "done" /\ emailResult'.read

\* C25: in a run of run-daily.js, every merge and the read of the
\* notification take the watchlist processGames wrote in that run: the file
\* getLatestWatchlist picks, the last in filename order, has the timestamp
\* of the run.
C25_LatestWatchlistIsOfThisRun ==
    [][(MergeCall \/ NotifyRead) =>
          watchlistNames[getLatestWatchlist(watchlists)] = timestamp]_vars

\* a step in which sendNotification of email-notify.js, run on its own,
\* reads the watchlist
EmailRead == pc = "email" /\ pc' = "mailed" /\ emailResult'.read

\* the entry parseWatchlistMarkdown returns for a row has the rank, title,
\* developer and publisher columns of the row
EntryOfRow(parsed, line) ==
    \E cols \in {ColumnsOf(line)} :
       IF IsRiserRow(line)
       THEN \E j \in 1..Len(parsed.risers) :
               /\ parsed.risers[j].currentRank = cols[1]
               /\ parsed.risers[j].title = TitleOfRow(line)
               /\ parsed.risers[j].developer = cols[Len(cols) - 1]
               /\ parsed.risers[j].publisher = cols[Len(cols)]
       ELSE \E j \in 1..Len(parsed.newEntries) :
               /\ parsed.newEntries[j].rank = cols[1]
               /\ parsed.newEntries[j].title = TitleOfRow(line)
               /\ parsed.newEntries[j].developer = cols[Len(cols) - 1]
               /\ parsed.newEntries[j].publisher = cols[Len(cols)]

\* C26: when sendNotification reads a watchlist, parseWatchlistMarkdown
\* returns for every new-entry row and every riser row of it an entry whose
\* title, rank, developer and publisher are those columns of the row.
C26_ParsedAsWritten ==
    [][(NotifyRead \/ EmailRead) =>
          \A parsed \in {parseWatchlistMarkdown(watchlists[getLatestWatchlist(watchlists)])} :
             \A line \in GameRowsOf(watchlists[getLatestWatchlist(watchlists)]) :
                EntryOfRow(parsed, line)]_vars

(***************************************************************************)
(* Claims about run-daily.js run after run (checked under SpecDailyRuns).  *)
(***************************************************************************)
\* a step in which the tracker.js of main has saved its report
TrackStep == pc = "games" /\ pc' = "enriching"

\* a step in which main calls scrapeGameDetails or enrichWatchlist
ItemCallStep ==
    /\ Len(events') = Len(events) + 1
    /\ events'[Len(events')].op \in {"lookup", "merge"}

\* C27: run after run, the baseline flag is true exactly in the runs that
\* find no stored report: once a run has saved a report, isFirstRun is false
\* in every later run; tracker.js hands main a list to enrich exactly when
\* the run is no baseline and newEntries or risers is not empty; and in a
\* baseline run main makes no lookup and no merge.
C27_BaselineOnlyWithoutSnapshot ==
    [][/\ TrackStep =>
             /\ changes'.isFirstRun <=> (reports = <<>>)
             /\ captured # <<>> => ~changes'.isFirstRun
             /\ (gamesToEnrich' # <<>>) <=>
                   (~changes'.isFirstRun /\
                      (changes'.newEntries # <<>> \/ changes'.risers # <<>>))
       /\ ItemCallStep => ~changes.isFirstRun]_vars

\* the second run of main has ended: the run before it was the baseline run
\* (its watchlist is the first file), this one was none and has looked up an
\* item
C27_Witness ==
    /\ runs = 1
    /\ pc = "done"
    /\ Len(captured) = 2
    /\ Len(watchlists) = 2
    /\ watchlists[1] = generateWatchlist(FirstRunResult, NoWatchlistData)
    /\ ~changes.isFirstRun
    /\ ItemCalls # {}

====
